---- MODULE Spec2Model ----
(***************************************************************************)
(* LookAway: the reminder scheduler (src/src/scheduler.py), the settings   *)
(* store it loads from (src/src/config_manager.py) and the notification    *)
(* dispatcher it hands reminders to (src/src/notifications.py).            *)
(*                                                                         *)
(* Time is in seconds.  `now` is the wall clock; a sleeping loop thread,   *)
(* a pause timer and a bounded join are deadlines the clock cannot pass    *)
(* before their owner has acted.  A thread that is not waiting (it is      *)
(* evaluating the loop condition, deciding, or inside a broadcast) lets    *)
(* the clock run: a send takes as long as its channels take.               *)
(***************************************************************************)
EXTENDS Integers, Sequences, FiniteSets, TLC

VARIABLES
    now,                \* seconds since the model's first instant
    day_start,          \* time of day (seconds after midnight) at now = 0
    store,              \* settings.json: the persisted keys (a partial map)
    default_config,     \* ConfigManager.default_config (its nested dicts are
                        \* shared with every config load_config returned)
    config,             \* EyeBreakScheduler.config (in memory)
    handlers,           \* NotificationManager.handlers (channel names)
    instances,          \* the handler object under each name (0: none)
    is_running,
    is_paused,
    reminder_count,
    last_reminder_time,
    snooze_until,
    scheduler_thread,   \* the thread start() created last (0: None)
    threads,            \* every loop thread start() has created
    timers,             \* fire times of the pending threading.Timer objects
    stopper,            \* the caller that is inside stop()
    warned,             \* the log holds "Scheduler is already running"
    calls,              \* control-surface calls and settings edits so far
    notification,       \* the title and message _send_reminder built last
    dispatched,         \* the last call of the dispatcher on its own
    iterating,          \* per loop thread: the dict iteration of its dispatch
    channel_env,        \* what the channel handlers were constructed with
    channel_call,       \* the call of a channel handler in progress or last
    first_run,          \* the first_run key of the persisted settings
    app,                \* where LookAwayApp.start_service is
    started_at,         \* history: time of the last start() that took effect
    snoozed_until,      \* history: T + m of the last snooze(m) call
    pause_mode,         \* history: kind of the last pause()/resume() call
    dnd_before,         \* history: do_not_disturb as the last toggle found
                        \* it, while nothing else has loaded or edited it
    dispatched_at       \* history: when a reminder last went to the Dispatcher

schedVars == <<is_running, is_paused, reminder_count, last_reminder_time,
               snooze_until, scheduler_thread>>
cfgVars   == <<store, default_config, config, handlers, instances>>
histVars  == <<started_at, snoozed_until, pause_mode, dnd_before,
               dispatched_at>>
outVars   == <<notification, dispatched, iterating>>
restVars  == <<day_start, channel_env, channel_call, first_run, app>>
vars == <<now, day_start, store, default_config, config, handlers, instances,
          iterating, channel_env, channel_call, first_run, app, is_running,
          is_paused,
          reminder_count,
          last_reminder_time, snooze_until, scheduler_thread,
          threads, timers, stopper, warned, calls, notification, dispatched,
          started_at, snoozed_until, pause_mode, dnd_before, dispatched_at>>

-----------------------------------------------------------------------------
(* Bounds of the model *)

MaxTime == 120
StepsPerSleep == 1
MaxThreads == 2
MaxCalls == 3
MaxCount == 2
MaxPauseMinutes == 1
MaxSnoozeMinutes == 1

(* Program constants *)

None == -1
SleepSeconds == 60
JoinTimeout == 5
TelegramTimeout == 30
SecondsPerMinute == 60
SecondsPerDay == 86400
DefaultSnoozeMinutes == 5
DefaultLongBreakInterval == 3

Channels == {"desktop", "email", "telegram"}
ThreadIds == 1..MaxThreads

-----------------------------------------------------------------------------
(* Settings *)

Num(n) == [t |-> "int", v |-> n]
NotNum == [t |-> "str", v |-> 0]
IsNumber(x) == x.t = "int"

\* the literal ConfigManager.__init__ assigns to default_config, the keys the
\* scheduler and dispatcher read
DefaultConfig ==
    [ reminder_interval_minutes |-> Num(1),
      notifications |-> {"desktop"},
      sleep_hours |-> [start |-> <<23, 0>>, end |-> <<7, 0>>],
      messages |-> 1,
      long_break_interval |-> DefaultLongBreakInterval,
      snooze_minutes |-> DefaultSnoozeMinutes,
      do_not_disturb |-> FALSE ]

Keys == DOMAIN DefaultConfig

\* the keys whose values are dicts: default_config.copy() is shallow, so the
\* copy and default_config hold the same dict objects under these keys
NestedKeys == {"notifications", "sleep_hours"}

\* ConfigManager._deep_merge: base_dict after the merge (the settings file
\* gives a nested dict with all its keys)
_deep_merge(base_dict, update_dict) ==
    [k \in Keys |-> IF k \in DOMAIN update_dict THEN update_dict[k]
                                                ELSE base_dict[k]]

\* ConfigManager.load_config: what it returns, the persisted keys over the
\* defaults
load_config(st) == _deep_merge(default_config, st)

\* a dict that shares its nested dicts with default_config, after
\* load_config has merged the file into them in place
AfterLoad(d, st) ==
    [k \in Keys |-> IF k \in NestedKeys THEN load_config(st)[k] ELSE d[k]]

\* datetime.time.fromisoformat on "HH:MM": a value error when out of range
fromisoformat(s) ==
    IF Len(s) = 2 /\ s[1] \in 0..23 /\ s[2] \in 0..59
    THEN [ok |-> TRUE, secs |-> s[1] * 3600 + s[2] * 60]
    ELSE [ok |-> FALSE, secs |-> 0]

\* ConfigManager.get_sleep_hours: reads the store, not the in-memory config
get_sleep_hours(st) ==
    LET sh == load_config(st).sleep_hours
        a == fromisoformat(sh.start)
        b == fromisoformat(sh.end)
    IN [ok |-> a.ok /\ b.ok, start |-> a.secs, end |-> b.secs]

\* the persisted settings the model starts from or is edited to
StoreChoices ==
    { <<>>,
      [reminder_interval_minutes |-> NotNum],
      [messages |-> 0],
      [long_break_interval |-> 2],
      [notifications |-> {}],
      [sleep_hours |-> [start |-> <<23, 0>>, end |-> <<24, 0>>]],
      [do_not_disturb |-> TRUE] }

\* NotificationManager._initialize_handlers
_initialize_handlers(cfg) == cfg.notifications \cap Channels

\* the place of a channel in the order _initialize_handlers builds them in
Rank(name) == IF name = "desktop" THEN 1 ELSE IF name = "email" THEN 2 ELSE 3

\* the handler objects _initialize_handlers constructs for the channels in
\* names: new objects, none of them one of the objects numbered up to base
NewHandlers(names, base) ==
    [name \in Channels |-> IF name \in names THEN base + Rank(name) ELSE 0]

MaxInstance ==
    CHOOSE m \in {instances[name] : name \in Channels} :
        \A name \in Channels : instances[name] <= m

\* what a channel's send_notification or test_connection does when called
Outcomes == {"true", "false", "raised"}

\* mutant: a channel that raises gets no entry
SendNotificationDropsRaising(outcome) ==
    [name \in {n \in DOMAIN outcome : outcome[n] # "raised"} |->
        outcome[name] = "true"]

\* NotificationManager.send_notification: the map it returns when the
\* handlers behave as in outcome (a call that raises is caught, line 293)
send_notification(outcome) ==
    [name \in DOMAIN outcome |-> outcome[name] = "true"]

\* NotificationManager.test_all_connections, likewise (line 307)
test_all_connections(outcome) ==
    [name \in DOMAIN outcome |-> outcome[name] = "true"]

-----------------------------------------------------------------------------
(* The clock *)

TimeOfDay(t) == (day_start + t) % SecondsPerDay

\* mutant: the window is never taken to cross midnight
SleepTimeNoWrap ==
    LET sh == get_sleep_hours(store)
        current_time == TimeOfDay(now)
    IN IF ~sh.ok THEN FALSE
       ELSE sh.start <= current_time /\ current_time <= sh.end

\* mutant: sleep hours that cannot be read count as sleep time
SleepTimeFailsClosed ==
    LET sh == get_sleep_hours(store)
        current_time == TimeOfDay(now)
    IN IF ~sh.ok THEN TRUE
       ELSE IF sh.start > sh.end
            THEN current_time >= sh.start \/ current_time <= sh.end
            ELSE sh.start <= current_time /\ current_time <= sh.end

\* EyeBreakScheduler._is_sleep_time
_is_sleep_time ==
    LET sh == get_sleep_hours(store)
        current_time == TimeOfDay(now)
    IN IF ~sh.ok THEN FALSE
       ELSE IF sh.start > sh.end
            THEN current_time >= sh.start \/ current_time <= sh.end
            ELSE sh.start <= current_time /\ current_time <= sh.end

NotStopping == [pc |-> "idle", thread |-> 0, since |-> 0]

\* mutant: join() with no timeout
JoinWithoutTimeout == stopper.since + MaxTime + SleepSeconds

\* stop(): the instant scheduler_thread.join(timeout=5) gives up
JoinDeadline == stopper.since + JoinTimeout

\* mutant: the worker thread joined with no timeout
TelegramJoinWithoutTimeout == channel_call.since + MaxTime + SleepSeconds

\* TelegramNotificationHandler.send_notification: the instant
\* telegram_thread_obj.join(timeout=30) gives up
TelegramDeadline == channel_call.since + TelegramTimeout

Deadlines ==
    {threads[t].wake : t \in {u \in ThreadIds : threads[u].pc = "sleep"}}
    \cup timers
    \cup (IF stopper.pc = "join" THEN {JoinDeadline} ELSE {})
    \cup (IF channel_call.pc = "join" THEN {TelegramDeadline} ELSE {})

Step == SleepSeconds \div StepsPerSleep

Advance ==
    \E t \in {now + Step} \cup Deadlines :
        /\ t > now
        /\ t <= MaxTime
        /\ \A d \in Deadlines : t <= d
        /\ now' = t
        /\ UNCHANGED <<restVars, outVars, cfgVars, schedVars, threads, timers,
                       stopper, warned, calls, histVars>>

-----------------------------------------------------------------------------
(* Control surface *)

Called == calls < MaxCalls /\ calls' = calls + 1

NoThread == [pc |-> "none", wake |-> 0, logged |-> "idle"]

\* mutant: start() leaves last_reminder_time as it finds it
StartUnseeded ==
    /\ Called
    /\ IF is_running
       THEN warned' = TRUE /\ UNCHANGED <<schedVars, threads, started_at,
                   dispatched_at>>
       ELSE \E t \in ThreadIds :
              /\ threads[t].pc = "none"
              /\ \A u \in ThreadIds : u < t => threads[u].pc # "none"
              /\ is_running' = TRUE
              /\ threads' = [threads EXCEPT ![t] =
                                [pc |-> "cond", wake |-> 0, logged |-> "idle"]]
              /\ scheduler_thread' = t
              /\ started_at' = now
              /\ UNCHANGED <<is_paused, reminder_count, snooze_until, warned,
                             last_reminder_time,
                   dispatched_at>>
    /\ UNCHANGED <<now, restVars, outVars, cfgVars, timers, stopper,
                   snoozed_until, pause_mode, dnd_before,
                   dispatched_at>>

\* mutant: start() without the is_running guard
StartUnguarded ==
    /\ Called
    /\ \E t \in ThreadIds :
         /\ threads[t].pc = "none"
         /\ \A u \in ThreadIds : u < t => threads[u].pc # "none"
         /\ is_running' = TRUE
         /\ last_reminder_time' = now
         /\ threads' = [threads EXCEPT ![t] =
                           [pc |-> "cond", wake |-> 0, logged |-> "idle"]]
         /\ scheduler_thread' = t
         /\ started_at' = now
         /\ UNCHANGED <<is_paused, reminder_count, snooze_until, warned,
                   dispatched_at>>
    /\ UNCHANGED <<now, restVars, outVars, cfgVars, timers, stopper,
                   snoozed_until, pause_mode, dnd_before,
                   dispatched_at>>

\* mutant: start() begins the count again
StartResetsCount ==
    /\ Called
    /\ IF is_running
       THEN warned' = TRUE /\ UNCHANGED <<schedVars, threads, started_at,
                   dispatched_at>>
       ELSE \E t \in ThreadIds :
              /\ threads[t].pc = "none"
              /\ \A u \in ThreadIds : u < t => threads[u].pc # "none"
              /\ is_running' = TRUE
              /\ last_reminder_time' = now
              /\ reminder_count' = 0
              /\ threads' = [threads EXCEPT ![t] =
                                [pc |-> "cond", wake |-> 0, logged |-> "idle"]]
              /\ scheduler_thread' = t
              /\ started_at' = now
              /\ UNCHANGED <<is_paused, snooze_until, warned,
                   dispatched_at>>
    /\ UNCHANGED <<now, restVars, outVars, cfgVars, timers, stopper,
                   snoozed_until, pause_mode, dnd_before,
                   dispatched_at>>

\* EyeBreakScheduler.start
Start ==
    /\ Called
    /\ IF is_running
       THEN warned' = TRUE /\ UNCHANGED <<schedVars, threads, started_at,
                   dispatched_at>>
       ELSE \E t \in ThreadIds :
              /\ threads[t].pc = "none"
              /\ \A u \in ThreadIds : u < t => threads[u].pc # "none"
              /\ is_running' = TRUE
              /\ last_reminder_time' = now
              /\ threads' = [threads EXCEPT ![t] =
                                [pc |-> "cond", wake |-> 0, logged |-> "idle"]]
              /\ scheduler_thread' = t
              /\ started_at' = now
              /\ UNCHANGED <<is_paused, reminder_count, snooze_until, warned,
                   dispatched_at>>
    /\ UNCHANGED <<now, restVars, outVars, cfgVars, timers, stopper,
                   snoozed_until, pause_mode, dnd_before,
                   dispatched_at>>

\* mutant: stop() also lifts the pause
StopCallResumes ==
    /\ Called
    /\ stopper.pc = "idle"
    /\ is_running' = FALSE
    /\ is_paused' = FALSE
    /\ stopper' = IF scheduler_thread # 0
                  THEN [pc |-> "join", thread |-> scheduler_thread,
                        since |-> now]
                  ELSE stopper
    /\ UNCHANGED <<now, restVars, outVars, cfgVars, reminder_count,
                   last_reminder_time, snooze_until, scheduler_thread,
                   threads, timers, warned, histVars>>

\* EyeBreakScheduler.stop, up to and into the join
StopCall ==
    /\ Called
    /\ stopper.pc = "idle"
    /\ is_running' = FALSE
    /\ stopper' = IF scheduler_thread # 0
                  THEN [pc |-> "join", thread |-> scheduler_thread,
                        since |-> now]
                  ELSE stopper
    /\ UNCHANGED <<now, restVars, outVars, cfgVars, is_paused, reminder_count,
                   last_reminder_time, snooze_until, scheduler_thread,
                   threads, timers, warned, histVars>>

\* EyeBreakScheduler.stop: join(timeout=5) returns
StopReturn ==
    /\ stopper.pc = "join"
    /\ threads[stopper.thread].pc = "dead" \/ now >= JoinDeadline
    /\ stopper' = NotStopping
    /\ UNCHANGED <<now, restVars, outVars, cfgVars, schedVars, threads, timers,
                   warned, calls, histVars>>

\* mutant: the timer is built and never started
PauseWithoutTimer(duration_minutes) ==
    /\ Called
    /\ is_paused' = TRUE
    /\ IF duration_minutes # None /\ duration_minutes # 0
       THEN /\ now + duration_minutes * SecondsPerMinute <= MaxTime
            /\ pause_mode' = "timed"
       ELSE pause_mode' = "indefinite"
    /\ UNCHANGED <<now, restVars, outVars, cfgVars, is_running,
                       reminder_count,
                   last_reminder_time, snooze_until, scheduler_thread,
                   threads, timers, stopper, warned, started_at,
                   snoozed_until, dnd_before,
                   dispatched_at>>

\* EyeBreakScheduler.pause
Pause(duration_minutes) ==
    /\ Called
    /\ is_paused' = TRUE
    /\ IF duration_minutes # None /\ duration_minutes # 0
       THEN /\ now + duration_minutes * SecondsPerMinute <= MaxTime
            /\ timers' = timers \cup {now + duration_minutes * SecondsPerMinute}
            /\ pause_mode' = "timed"
       ELSE /\ timers' = timers
            /\ pause_mode' = "indefinite"
    /\ UNCHANGED <<now, restVars, outVars, cfgVars, is_running,
                       reminder_count,
                   last_reminder_time, snooze_until, scheduler_thread,
                   threads, stopper, warned, started_at, snoozed_until,
                   dnd_before,
                   dispatched_at>>

\* EyeBreakScheduler.resume, called by the control surface
Resume ==
    /\ Called
    /\ is_paused' = FALSE
    /\ snooze_until' = None
    /\ pause_mode' = "none"
    /\ UNCHANGED <<now, restVars, outVars, cfgVars, is_running,
                       reminder_count,
                   last_reminder_time, scheduler_thread, threads, timers,
                   stopper, warned, started_at, snoozed_until, dnd_before,
                   dispatched_at>>

\* EyeBreakScheduler.resume, run by a timer pause(d) started
TimerFire ==
    \E d \in timers :
        /\ now >= d
        /\ timers' = timers \ {d}
        /\ is_paused' = FALSE
        /\ snooze_until' = None
        /\ UNCHANGED <<now, restVars, outVars, cfgVars, is_running,
                       reminder_count,
                       last_reminder_time, scheduler_thread, threads,
                       stopper, warned, calls, histVars>>

\* EyeBreakScheduler.snooze
Snooze(arg) ==
    LET minutes == IF arg = None THEN config.snooze_minutes ELSE arg IN
    /\ Called
    /\ snooze_until' = now + minutes * SecondsPerMinute
    /\ snoozed_until' = now + minutes * SecondsPerMinute
    /\ UNCHANGED <<now, restVars, outVars, cfgVars, is_running,
                       is_paused,
                   reminder_count, last_reminder_time, scheduler_thread,
                   threads, timers, stopper, warned, started_at, pause_mode,
                   dnd_before,
                   dispatched_at>>

\* ConfigManager.update_setting('do_not_disturb', v): the merged settings
\* with the key set are written back, unless the write fails
update_setting(st, key, value, ok) ==
    IF ok THEN [load_config(st) EXCEPT ![key] = value] ELSE st

\* EyeBreakScheduler.toggle_do_not_disturb
ToggleDnd ==
    \E ok \in BOOLEAN :
        LET new_dnd == ~config.do_not_disturb
            st == update_setting(store, "do_not_disturb", new_dnd, ok)
        IN /\ Called
           /\ store' = st
           /\ default_config' = AfterLoad(default_config, store)
           /\ config' = load_config(st)
           /\ dnd_before' = <<config.do_not_disturb>>
           /\ UNCHANGED <<now, restVars, outVars, handlers, instances,
                          schedVars, threads,
                          timers, stopper, warned, started_at, snoozed_until,
                          pause_mode,
                   dispatched_at>>

\* mutant: a reload switches do-not-disturb off
ReloadConfigForgetsDnd ==
    /\ Called
    /\ default_config' = AfterLoad(default_config, store)
    /\ config' = [load_config(store) EXCEPT !.do_not_disturb = FALSE]
    /\ handlers' = _initialize_handlers(load_config(store))
    /\ instances' = NewHandlers(handlers', MaxInstance)
    /\ iterating' = [t \in ThreadIds |->
           IF threads[t].pc = "sending" /\ iterating[t].names # {}
           THEN [iterating[t] EXCEPT !.reloaded = TRUE]
           ELSE iterating[t]]
    /\ dnd_before' = <<>>
    /\ UNCHANGED <<now, restVars, notification, dispatched, store, schedVars,
                   threads, timers, stopper, warned, started_at,
                   snoozed_until, pause_mode,
                   dispatched_at>>

\* EyeBreakScheduler.reload_config
ReloadConfig ==
    /\ Called
    /\ default_config' = AfterLoad(default_config, store)
    /\ config' = load_config(store)
    /\ handlers' = _initialize_handlers(load_config(store))
    /\ instances' = NewHandlers(handlers', MaxInstance)
    /\ iterating' = [t \in ThreadIds |->
           IF threads[t].pc = "sending" /\ iterating[t].names # {}
           THEN [iterating[t] EXCEPT !.reloaded = TRUE]
           ELSE iterating[t]]
    /\ dnd_before' = <<>>
    /\ UNCHANGED <<now, restVars, notification, dispatched, store, schedVars,
                   threads, timers, stopper, warned, started_at,
                   snoozed_until, pause_mode,
                   dispatched_at>>

\* EyeBreakScheduler.get_status: the record it returns; ok is false when
\* line 228 throws (a timestamp plus a setting that is not a number)
get_status ==
    LET interval == config.reminder_interval_minutes
        raises == last_reminder_time # None /\ ~IsNumber(interval)
    IN [ ok |-> ~raises,
         is_running |-> is_running,
         is_paused |-> is_paused,
         do_not_disturb |-> config.do_not_disturb,
         reminder_count |-> reminder_count,
         last_reminder_time |-> last_reminder_time,
         next_reminder_time |->
             IF last_reminder_time # None /\ IsNumber(interval)
             THEN last_reminder_time + interval.v * SecondsPerMinute
             ELSE None,
         snooze_until |-> snooze_until,
         enabled_notifications |-> handlers,
         is_sleep_time |-> _is_sleep_time,
         interval_minutes |-> interval ]

\* a call of get_status: its _is_sleep_time (line 239) loads the settings
\* file, unless line 228 has thrown before
GetStatus ==
    /\ Called
    /\ default_config' = IF get_status.ok
                          THEN AfterLoad(default_config, store)
                          ELSE default_config
    /\ config' = IF get_status.ok THEN AfterLoad(config, store) ELSE config
    /\ UNCHANGED <<now, restVars, outVars, store, handlers, instances,
                   schedVars,
                   threads, timers, stopper, warned, histVars>>

\* a call of NotificationManager.send_notification on its own
SendNotification ==
    \E outcome \in [handlers -> Outcomes] :
        /\ Called
        /\ dispatched' = [op |-> "send_notification", outcome |-> outcome,
                          results |-> send_notification(outcome)]
        /\ UNCHANGED <<now, restVars, notification, iterating, cfgVars,
                       schedVars, threads, timers, stopper, warned, histVars>>

\* NotificationManager.test_all_connections (the tray's Test Notifications)
TestAllConnections ==
    \E outcome \in [handlers -> Outcomes] :
        /\ Called
        /\ dispatched' = [op |-> "test_all_connections", outcome |-> outcome,
                          results |-> test_all_connections(outcome)]
        /\ UNCHANGED <<now, restVars, notification, iterating, cfgVars,
                       schedVars, threads, timers, stopper, warned, histVars>>

\* mutant: the handlers already there are kept
DispatcherReloadKeepsOld(names) ==
    LET new == _initialize_handlers([DefaultConfig EXCEPT
                                        !.notifications = names])
    IN /\ Called
       /\ handlers' = handlers \cup new
       /\ instances' = [name \in Channels |->
                           IF name \in handlers THEN instances[name]
                           ELSE NewHandlers(new, MaxInstance)[name]]
       /\ UNCHANGED <<now, restVars, outVars, store, default_config, config,
                      schedVars, threads, timers, stopper, warned, histVars>>

\* NotificationManager.reload_config(cfg), cfg enabling the channels in
\* names: clear(), then _initialize_handlers
DispatcherReload(names) ==
    /\ Called
    /\ handlers' = _initialize_handlers([DefaultConfig EXCEPT
                                            !.notifications = names])
    /\ instances' = NewHandlers(handlers', MaxInstance)
    /\ UNCHANGED <<now, restVars, outVars, store, default_config, config,
                   schedVars, threads, timers, stopper, warned, histVars>>

\* NotificationManager.get_enabled_methods
get_enabled_methods == handlers

\* settings.json rewritten from outside the scheduler
EditStore ==
    \E st \in StoreChoices :
        /\ Called
        /\ st # store
        /\ store' = st
        /\ dnd_before' = <<>>
        /\ UNCHANGED <<now, restVars, outVars, default_config, config,
                       handlers, instances, schedVars, threads, timers,
                       stopper, warned, started_at, snoozed_until,
                       pause_mode,
                   dispatched_at>>

-----------------------------------------------------------------------------
(* The channel handlers *)

EmailFields == {"smtp_server", "email", "password", "recipient"}
TelegramFields == {"bot_token", "chat_id"}
Ops == {"send_notification", "test_connection"}

\* default_config: email_settings and telegram_settings hold empty strings;
\* the fields listed are the non-empty ones
DefaultEnv == [email |-> {}, telegram |-> {}, TELEGRAM_AVAILABLE |-> TRUE]

\* TelegramNotificationHandler.__init__: self.bot is a Bot (not None)
HasBot == channel_env.TELEGRAM_AVAILABLE /\ "bot_token" \in channel_env.telegram

NoCall == [channel |-> "none", op |-> "none", pc |-> "returned",
           returned |-> "none", underlying |-> "none", connected |-> FALSE,
           since |-> 0, worker |-> "none"]

\* a handler method is called: one call at a time
CallOf(name) ==
    /\ Called
    /\ name \in handlers
    /\ channel_call.pc = "returned"

Returned(name, op, value, underlying, connected) ==
    [channel |-> name, op |-> op, pc |-> "returned", returned |-> value,
     underlying |-> underlying, connected |-> connected, since |-> now,
     worker |-> channel_call.worker]

envVars == <<day_start, channel_env, first_run, app>>

schedulerVars == <<outVars, cfgVars, schedVars, threads, timers, stopper,
                   warned, histVars>>

\* mutant: what plyer raises goes on to the caller
DesktopCallUncaught(op) ==
    \E os \in {"ok", "raises"} :
        /\ CallOf("desktop")
        /\ channel_call' = Returned("desktop", op,
                                    IF os = "ok" THEN "true" ELSE "raised",
                                    os, TRUE)
        /\ UNCHANGED <<now, envVars, schedulerVars>>

\* DesktopNotificationHandler.send_notification, and test_connection, which
\* is a send; os: what notification.notify does
DesktopCall(op) ==
    \E os \in {"ok", "raises"} :
        /\ CallOf("desktop")
        /\ channel_call' = Returned("desktop", op,
                                    IF os = "ok" THEN "true" ELSE "false",
                                    os, TRUE)
        /\ UNCHANGED <<now, envVars, schedulerVars>>

\* mutant: only a missing password stops the send
EmailCallChecksPassword(op) ==
    \E smtp \in {"ok", "raises"} :
        LET incomplete == "password" \notin channel_env.email
        IN /\ CallOf("email")
           /\ channel_call' =
                 IF incomplete
                 THEN Returned("email", op, "false", "none", FALSE)
                 ELSE Returned("email", op,
                               IF smtp = "ok" THEN "true" ELSE "false",
                               smtp, TRUE)
           /\ UNCHANGED <<now, envVars, schedulerVars>>

\* EmailNotificationHandler.send_notification, and test_connection, which
\* is a send; smtp: what the smtplib calls do
EmailCall(op) ==
    \E smtp \in {"ok", "raises"} :
        LET incomplete == ~(EmailFields \subseteq channel_env.email)
        IN /\ CallOf("email")
           /\ channel_call' =
                 IF incomplete
                 THEN Returned("email", op, "false", "none", FALSE)
                 ELSE Returned("email", op,
                               IF smtp = "ok" THEN "true" ELSE "false",
                               smtp, TRUE)
           /\ UNCHANGED <<now, envVars, schedulerVars>>

\* mutant: the worker is started whatever the credentials
TelegramCallBeginUnchecked(op) ==
    /\ CallOf("telegram")
    /\ channel_call' =
          [channel |-> "telegram", op |-> op, pc |-> "join",
           returned |-> "none", underlying |-> "none",
           connected |-> TRUE, since |-> now, worker |-> "running"]
    /\ UNCHANGED <<now, envVars, schedulerVars>>

\* TelegramNotificationHandler.send_notification up to the join (lines
\* 147-217), and test_connection, which is a send when the library is there
TelegramCallBegin(op) ==
    LET refused == \/ ~channel_env.TELEGRAM_AVAILABLE
                   \/ ~(TelegramFields \subseteq channel_env.telegram)
                   \/ ~HasBot
    IN /\ CallOf("telegram")
       /\ channel_call' =
             IF refused
             THEN Returned("telegram", op, "false", "none", FALSE)
             ELSE [channel |-> "telegram", op |-> op, pc |-> "join",
                   returned |-> "none", underlying |-> "none",
                   connected |-> TRUE, since |-> now, worker |-> "running"]
       /\ UNCHANGED <<now, envVars, schedulerVars>>

\* telegram_thread of the latest send ends: the message was sent, or the
\* send raised (lines 172-210); the caller may have given up on it before
TelegramWorkerEnds ==
    \E end \in {"sent", "failed"} :
        /\ channel_call.worker = "running"
        /\ channel_call' = [channel_call EXCEPT !.worker = end]
        /\ UNCHANGED <<now, envVars, calls, schedulerVars>>

\* TelegramNotificationHandler.send_notification from the join on (lines
\* 217-246): a worker still alive is a timeout, a worker that failed is
\* re-raised and caught
TelegramCallReturn ==
    /\ channel_call.pc = "join"
    /\ channel_call.worker # "running" \/ now >= TelegramDeadline
    /\ channel_call' =
          [channel_call EXCEPT
              !.pc = "returned",
              !.underlying = IF channel_call.worker = "sent" THEN "ok"
                             ELSE IF channel_call.worker = "failed"
                                  THEN "raises" ELSE "timeout",
              !.returned = IF channel_call.worker = "sent" THEN "true"
                           ELSE "false"]
    /\ UNCHANGED <<now, envVars, calls, schedulerVars>>

-----------------------------------------------------------------------------
(* The loop thread *)

LongBreakTitle == "Time for a Long Break!"
QuickBreakTitle == "Eye Break Reminder"
FallbackMessage == "Time to rest your eyes!"
NoNotification == [title |-> "", message |-> "", count |-> 0]

\* send_notification's `for name, handler in self.handlers.items()`: the
\* names the dict held when the loop began, and whether reload_config has
\* cleared and refilled the dict since
NoIteration == [names |-> {}, reloaded |-> FALSE]

\* mutant: the interval compared with > instead of >=
ShouldSendStrictly ==
    IF is_paused \/ config.do_not_disturb THEN "false"
    ELSE IF snooze_until # None /\ now < snooze_until THEN "false"
    ELSE IF _is_sleep_time THEN "false"
    ELSE IF last_reminder_time = None THEN "false"
    ELSE IF ~IsNumber(config.reminder_interval_minutes) THEN "raised"
    ELSE IF now - last_reminder_time
              > config.reminder_interval_minutes.v * SecondsPerMinute
         THEN "true" ELSE "false"

\* EyeBreakScheduler._should_send_reminder: what it returns
\* ("raised": the comparison of a float with a non-number throws)
_should_send_reminder ==
    IF is_paused \/ config.do_not_disturb THEN "false"
    ELSE IF snooze_until # None /\ now < snooze_until THEN "false"
    ELSE IF _is_sleep_time THEN "false"
    ELSE IF last_reminder_time = None THEN "false"
    ELSE IF ~IsNumber(config.reminder_interval_minutes) THEN "raised"
    ELSE IF now - last_reminder_time
              >= config.reminder_interval_minutes.v * SecondsPerMinute
         THEN "true" ELSE "false"

\* _should_send_reminder gets as far as _is_sleep_time (line 142), whose
\* get_sleep_hours loads the settings file
ReadsSleepHours ==
    /\ ~(is_paused \/ config.do_not_disturb)
    /\ ~(snooze_until # None /\ now < snooze_until)

\* the one assignment _should_send_reminder makes (lines 150-152)
SeedsLastReminderTime ==
    /\ ReadsSleepHours
    /\ ~_is_sleep_time
    /\ last_reminder_time = None

\* mutant: the loop goes round whatever is_running says
LoopCondIgnoresStop(t) ==
    /\ threads[t].pc = "cond"
    /\ threads' = [threads EXCEPT ![t].pc = "check"]
    /\ UNCHANGED <<now, restVars, outVars, cfgVars, schedVars, timers,
                   stopper, warned,
                   calls, histVars>>

\* _run_scheduler: `while self.is_running`
LoopCond(t) ==
    /\ threads[t].pc = "cond"
    /\ threads' = [threads EXCEPT ![t].pc =
                       IF is_running THEN "check" ELSE "dead"]
    /\ UNCHANGED <<now, restVars, outVars, cfgVars, schedVars, timers,
                   stopper, warned,
                   calls, histVars>>

\* mutant: the loop body without its try/except
LoopCheckUncaught(t) ==
    LET ret == _should_send_reminder IN
    /\ threads[t].pc = "check"
    /\ last_reminder_time' =
           IF SeedsLastReminderTime THEN now ELSE last_reminder_time
    /\ threads' = [threads EXCEPT ![t] =
           IF ret = "true"
           THEN [pc |-> "send", wake |-> 0, logged |-> "true"]
           ELSE IF ret = "raised"
           THEN [pc |-> "dead", wake |-> 0, logged |-> "loop_error"]
           ELSE [pc |-> "sleep", wake |-> now + SleepSeconds,
                 logged |-> "false"]]
    /\ default_config' = IF ReadsSleepHours
                          THEN AfterLoad(default_config, store)
                          ELSE default_config
    /\ config' = IF ReadsSleepHours THEN AfterLoad(config, store) ELSE config
    /\ UNCHANGED <<now, restVars, outVars, store, handlers, instances,
                   is_running,
                   is_paused,
                   reminder_count, snooze_until, scheduler_thread, timers,
                   stopper, warned, calls, histVars>>

\* _run_scheduler: `if self._should_send_reminder()`, and the sleep that
\* follows a false result or an exception
LoopCheck(t) ==
    LET ret == _should_send_reminder IN
    /\ threads[t].pc = "check"
    /\ last_reminder_time' =
           IF SeedsLastReminderTime THEN now ELSE last_reminder_time
    /\ threads' = [threads EXCEPT ![t] =
           IF ret = "true"
           THEN [pc |-> "send", wake |-> 0, logged |-> "true"]
           ELSE [pc |-> "sleep", wake |-> now + SleepSeconds,
                 logged |-> IF ret = "raised" THEN "loop_error" ELSE "false"]]
    /\ default_config' = IF ReadsSleepHours
                          THEN AfterLoad(default_config, store)
                          ELSE default_config
    /\ config' = IF ReadsSleepHours THEN AfterLoad(config, store) ELSE config
    /\ UNCHANGED <<now, restVars, outVars, store, handlers, instances,
                   is_running,
                   is_paused,
                   reminder_count, snooze_until, scheduler_thread, timers,
                   stopper, warned, calls, histVars>>

\* mutant: the kind of break decided from the count before its increment
SendBeginCountsBefore(t) ==
    LET count == reminder_count + 1
        is_long_break == (reminder_count % config.long_break_interval) = 0
        raises == ~is_long_break /\ config.messages = 0
    IN
    /\ threads[t].pc = "send"
    /\ reminder_count < MaxCount
    /\ reminder_count' = count
    /\ notification' =
           IF raises THEN notification
           ELSE IF is_long_break
                THEN [title |-> LongBreakTitle, message |-> "description",
                      count |-> count]
                ELSE [title |-> QuickBreakTitle, message |-> "messages",
                      count |-> count]
    /\ threads' = [threads EXCEPT ![t] =
           IF raises
           THEN [pc |-> "sleep", wake |-> now + SleepSeconds,
                 logged |-> "send_error"]
           ELSE [pc |-> "sending", wake |-> 0, logged |-> "true"]]
    /\ iterating' = [iterating EXCEPT ![t] =
           IF raises THEN NoIteration
           ELSE [names |-> handlers, reloaded |-> FALSE]]
    /\ dispatched' = dispatched
    /\ dispatched_at' = IF raises THEN dispatched_at ELSE now
    /\ UNCHANGED <<now, restVars, cfgVars, is_running, is_paused,
                   last_reminder_time, snooze_until, scheduler_thread,
                   timers, stopper, warned, calls, started_at,
                   snoozed_until, pause_mode, dnd_before>>

\* _send_reminder up to the broadcast (lines 176-202): the count, the kind
\* of break, the message; random.choice of an empty pool throws and is
\* caught at line 218
SendBegin(t) ==
    LET count == reminder_count + 1
        is_long_break == (count % config.long_break_interval) = 0
        raises == ~is_long_break /\ config.messages = 0
    IN
    /\ threads[t].pc = "send"
    /\ reminder_count < MaxCount
    /\ reminder_count' = count
    /\ notification' =
           IF raises THEN notification
           ELSE IF is_long_break
                THEN [title |-> LongBreakTitle, message |-> "description",
                      count |-> count]
                ELSE [title |-> QuickBreakTitle, message |-> "messages",
                      count |-> count]
    /\ threads' = [threads EXCEPT ![t] =
           IF raises
           THEN [pc |-> "sleep", wake |-> now + SleepSeconds,
                 logged |-> "send_error"]
           ELSE [pc |-> "sending", wake |-> 0, logged |-> "true"]]
    /\ iterating' = [iterating EXCEPT ![t] =
           IF raises THEN NoIteration
           ELSE [names |-> handlers, reloaded |-> FALSE]]
    /\ dispatched' = dispatched
    /\ dispatched_at' = IF raises THEN dispatched_at ELSE now
    /\ UNCHANGED <<now, restVars, cfgVars, is_running, is_paused,
                   last_reminder_time, snooze_until, scheduler_thread,
                   timers, stopper, warned, calls, started_at,
                   snoozed_until, pause_mode, dnd_before>>

\* the for statement of send_notification finds that the dict has changed
\* size (RuntimeError, outside the per-channel try): reload_config has
\* replaced the handlers by a different number of them, or (raced) the loop
\* asked for its next handler between the reload's clear() and its refill
DictChangedSize(t, raced) ==
    /\ iterating[t].reloaded
    /\ Cardinality(handlers) # Cardinality(iterating[t].names) \/ raced

\* mutant: a broadcast nobody delivered stops the scheduler
SendEndFatalFailure(t) ==
    \E outcome \in [iterating[t].names -> Outcomes], raced \in BOOLEAN :
        LET results == send_notification(outcome)
            succeeded == {method \in DOMAIN results : results[method]}
            raises == DictChangedSize(t, raced)
        IN
        /\ threads[t].pc = "sending"
        /\ last_reminder_time' = IF raises THEN last_reminder_time ELSE now
        /\ snooze_until' = IF raises THEN snooze_until ELSE None
        /\ is_running' = (is_running /\ (raises \/ succeeded # {}))
        /\ threads' = [threads EXCEPT ![t] =
               [pc |-> "sleep", wake |-> now + SleepSeconds,
                logged |-> IF raises THEN "send_error"
                           ELSE IF succeeded # {} THEN "sent"
                           ELSE "failed_all"]]
        /\ iterating' = [iterating EXCEPT ![t] = NoIteration]
        /\ UNCHANGED <<now, restVars, notification, dispatched, cfgVars,
                       is_paused, reminder_count, scheduler_thread,
                       timers, stopper, warned, calls, histVars>>

\* _send_reminder from the broadcast on (lines 202-221), and the loop's
\* sleep; succeeded: the channels that returned true; an exception out of
\* the broadcast is caught at line 218
SendEnd(t) ==
    \E outcome \in [iterating[t].names -> Outcomes], raced \in BOOLEAN :
        LET results == send_notification(outcome)
            succeeded == {method \in DOMAIN results : results[method]}
            raises == DictChangedSize(t, raced)
        IN
        /\ threads[t].pc = "sending"
        /\ last_reminder_time' = IF raises THEN last_reminder_time ELSE now
        /\ snooze_until' = IF raises THEN snooze_until ELSE None
        /\ threads' = [threads EXCEPT ![t] =
               [pc |-> "sleep", wake |-> now + SleepSeconds,
                logged |-> IF raises THEN "send_error"
                           ELSE IF succeeded # {} THEN "sent"
                           ELSE "failed_all"]]
        /\ iterating' = [iterating EXCEPT ![t] = NoIteration]
        /\ UNCHANGED <<now, restVars, notification, dispatched, cfgVars,
                       is_running, is_paused, reminder_count, scheduler_thread,
                       timers, stopper, warned, calls, histVars>>

\* time.sleep(60) returns
WakeUp(t) ==
    /\ threads[t].pc = "sleep"
    /\ now >= threads[t].wake
    /\ threads' = [threads EXCEPT ![t] =
                       [pc |-> "cond", wake |-> 0, logged |-> "idle"]]
    /\ UNCHANGED <<now, restVars, outVars, cfgVars, schedVars, timers,
                   stopper, warned,
                   calls, histVars>>

-----------------------------------------------------------------------------

DayStarts == {22 * 3600 + 58 * 60}

NotDispatched == [op |-> "none", outcome |-> <<>>, results |-> <<>>]

\* EyeBreakScheduler.__init__ over one of the settings files in stores, at
\* one of the times of day in starts, the channels built as in one of envs,
\* the stored first_run key one of flags
Constructed(stores, starts, envs, flags) ==
    /\ now = 0
    /\ day_start \in starts
    /\ store \in stores
    /\ config = _deep_merge(DefaultConfig, store)
    /\ default_config =
           [k \in Keys |-> IF k \in NestedKeys THEN config[k]
                                               ELSE DefaultConfig[k]]
    /\ channel_env \in envs
    /\ channel_call = NoCall
    /\ first_run \in flags
    /\ app = "idle"
    /\ handlers = _initialize_handlers(config)
    /\ instances = NewHandlers(handlers, 0)
    /\ iterating = [t \in ThreadIds |-> NoIteration]
    /\ is_running = FALSE
    /\ is_paused = FALSE
    /\ reminder_count = 0
    /\ last_reminder_time = None
    /\ snooze_until = None
    /\ scheduler_thread = 0
    /\ threads = [t \in ThreadIds |-> NoThread]
    /\ timers = {}
    /\ stopper = NotStopping
    /\ warned = FALSE
    /\ calls = 0
    /\ notification = NoNotification
    /\ dispatched = NotDispatched
    /\ started_at = None
    /\ snoozed_until = None
    /\ pause_mode = "none"
    /\ dnd_before = <<>>
    /\ dispatched_at = None

Init == Constructed(StoreChoices, DayStarts, {DefaultEnv}, {"false"})

Next ==
    \/ Advance
    \/ Start
    \/ StopCall
    \/ StopReturn
    \/ \E d \in {None} \cup (1..MaxPauseMinutes) : Pause(d)
    \/ Resume
    \/ TimerFire
    \/ \E m \in {None} \cup (1..MaxSnoozeMinutes) : Snooze(m)
    \/ ToggleDnd
    \/ ReloadConfig
    \/ GetStatus
    \/ EditStore
    \/ \E t \in ThreadIds : LoopCond(t)
    \/ \E t \in ThreadIds : LoopCheck(t)
    \/ \E t \in ThreadIds : SendBegin(t)
    \/ \E t \in ThreadIds : SendEnd(t)
    \/ \E t \in ThreadIds : WakeUp(t)

Spec == Init /\ [][Next]_vars

\* time passes, a timer fires, a sleep and a join end: what the threading
\* runtime guarantees the scheduler
FairSpec ==
    /\ Spec
    /\ WF_vars(Advance)
    /\ WF_vars(TimerFire)
    /\ WF_vars(StopReturn)
    /\ \A t \in ThreadIds : WF_vars(WakeUp(t))

-----------------------------------------------------------------------------
(* The sleep-hours test on its own: settings files with windows that wrap   *)
(* over midnight, that do not, and that are a single instant, read at times *)
(* of day on both sides of their ends.                                      *)

HHMM(h, m) == h * 3600 + m * 60

SleepWindows ==
    { [start |-> <<23, 0>>, end |-> <<7, 0>>],
      [start |-> <<23, 0>>, end |-> <<0, 0>>],
      [start |-> <<7, 0>>, end |-> <<23, 0>>],
      [start |-> <<0, 0>>, end |-> <<7, 1>>],
      [start |-> <<7, 0>>, end |-> <<7, 0>>] }

SleepStores == {[sleep_hours |-> w] : w \in SleepWindows}

SleepDayStarts ==
    {HHMM(22, 59), HHMM(23, 59), HHMM(6, 59), HHMM(7, 0), HHMM(12, 0)}

SleepInit == Constructed(SleepStores, SleepDayStarts, {DefaultEnv}, {"false"})

SleepNext == Advance \/ GetStatus

SleepSpec == SleepInit /\ [][SleepNext]_vars

-----------------------------------------------------------------------------
(* The dispatcher on its own: every set of enabled channels, every way the  *)
(* channels can behave.                                                     *)

DispatchStores == {[notifications |-> n] : n \in SUBSET Channels}

DispatchInit == Constructed(DispatchStores, DayStarts, {DefaultEnv}, {"false"})

DispatchNext == SendNotification \/ TestAllConnections

DispatchSpec == DispatchInit /\ [][DispatchNext]_vars

-----------------------------------------------------------------------------
(* LookAwayApp.start_service up to the start of the scheduler, with the    *)
(* setup wizard. What runs after the start is the control surface and the  *)
(* loop thread above.                                                       *)

FirstRunFlags == {"absent", "true", "false"}

\* ConfigManager.is_first_run: config.get('first_run', True) of the loaded
\* settings, whose built-in default is True
is_first_run == first_run # "false"

\* what the user changes in the wizard's copy of the settings
WizardChoices ==
    {<<>>, [notifications |-> {}], [long_break_interval |-> 2]}

serviceFrame == <<now, day_start, channel_env, channel_call, outVars,
                  schedVars, threads, timers, stopper, warned, calls,
                  histVars>>

\* LookAwayApp.start_service, line 213: is setup needed
StartServiceCheck ==
    /\ app = "idle"
    /\ app' = IF is_first_run THEN "run_setup" ELSE "starting"
    /\ default_config' = AfterLoad(default_config, store)
    /\ UNCHANGED <<serviceFrame, first_run, store, config, handlers,
                   instances>>

\* `python setup.py` run to its end as a process of its own while
\* start_service is between its two readings of the flag
SetupElsewhere ==
    /\ app = "run_setup"
    /\ is_first_run
    /\ first_run' = "false"
    /\ UNCHANGED <<serviceFrame, app, cfgVars>>

\* LookAwayApp.run_setup, line 201: the flag is read again; not set any
\* more, run_setup returns False and start_service with it
RunSetupCheck ==
    /\ app = "run_setup"
    /\ app' = IF is_first_run THEN "wizard" ELSE "exited"
    /\ default_config' = AfterLoad(default_config, store)
    /\ UNCHANGED <<serviceFrame, first_run, store, config, handlers,
                   instances>>

\* SetupWizard.run_setup interrupted or failing in one of its steps: it
\* returns False, and start_service returns False
WizardCancelled ==
    /\ app = "wizard"
    /\ app' = "exited"
    /\ UNCHANGED <<serviceFrame, first_run, cfgVars>>

\* SetupWizard.run_setup to its end: save_config(self.config), then
\* mark_setup_complete, each of whose writes may fail without a word to
\* the wizard; it returns True. The wizard has a ConfigManager of its own,
\* whose nested defaults its config shares.
WizardCompleted ==
    \E chosen \in WizardChoices, saved \in BOOLEAN, marked \in BOOLEAN :
        LET wizard_config ==
                _deep_merge(_deep_merge(DefaultConfig, store), chosen)
            st == IF saved THEN wizard_config ELSE store
            flag == IF saved THEN "true" ELSE first_run
            loaded == [k \in Keys |->
                          IF k \in DOMAIN st THEN st[k]
                          ELSE IF k \in NestedKeys THEN wizard_config[k]
                          ELSE DefaultConfig[k]]
        IN /\ app = "wizard"
           /\ app' = "starting"
           /\ store' = IF marked THEN loaded ELSE st
           /\ first_run' = IF marked THEN "false" ELSE flag
           /\ UNCHANGED <<serviceFrame, default_config, config, handlers,
                          instances>>

\* LookAwayApp.start_service, lines 220-221: EyeBreakScheduler(...) and its
\* start()
StartScheduler ==
    /\ app = "starting"
    /\ app' = "serving"
    /\ default_config' = AfterLoad(default_config, store)
    /\ config' = load_config(store)
    /\ handlers' = _initialize_handlers(load_config(store))
    /\ instances' = NewHandlers(handlers', 0)
    /\ is_running' = TRUE
    /\ last_reminder_time' = now
    /\ threads' = [threads EXCEPT ![1] =
                      [pc |-> "cond", wake |-> 0, logged |-> "idle"]]
    /\ scheduler_thread' = 1
    /\ started_at' = now
    /\ UNCHANGED <<now, day_start, channel_env, channel_call, first_run,
                   outVars, store, is_paused, reminder_count, snooze_until,
                   timers, stopper, warned, calls, snoozed_until,
                   pause_mode, dnd_before,
                   dispatched_at>>

ServiceInit ==
    Constructed(StoreChoices, DayStarts, {DefaultEnv}, FirstRunFlags)

ServiceNext ==
    \/ StartServiceCheck
    \/ SetupElsewhere
    \/ RunSetupCheck
    \/ WizardCancelled
    \/ WizardCompleted
    \/ StartScheduler

ServiceSpec == ServiceInit /\ [][ServiceNext]_vars

-----------------------------------------------------------------------------
(* The channel handlers on their own: all three enabled, with every kind   *)
(* of credential section, with and without the Telegram library.           *)

ChannelStores == {[notifications |-> Channels]}

ChannelEnvs ==
    [ email : {{}, EmailFields} \cup {EmailFields \ {f} : f \in EmailFields},
      telegram : SUBSET TelegramFields,
      TELEGRAM_AVAILABLE : BOOLEAN ]

ChannelInit ==
    Constructed(ChannelStores, DayStarts, ChannelEnvs, {"false"})

ChannelNext ==
    \/ Advance
    \/ \E op \in Ops : DesktopCall(op)
    \/ \E op \in Ops : EmailCall(op)
    \/ \E op \in Ops : TelegramCallBegin(op)
    \/ TelegramWorkerEnds
    \/ TelegramCallReturn

\* the runtime lets time pass and ends the bounded join
ChannelSpec == ChannelInit /\ [][ChannelNext]_vars

-----------------------------------------------------------------------------
ReloadNext == \E names \in SUBSET Channels : DispatcherReload(names)

\* the dispatcher reloaded again and again, from every set of channels
ReloadSpec == DispatchInit /\ [][ReloadNext]_vars

-----------------------------------------------------------------------------
(* The claims *)

Interval == config.reminder_interval_minutes

\* the five conditions of the polling decision, as the specification lists
\* them, in the state the check is made in
SnoozeInFuture == snooze_until # None /\ snooze_until > now

OtherConditionsHold ==
    /\ ~is_paused
    /\ ~config.do_not_disturb
    /\ ~_is_sleep_time
    /\ last_reminder_time # None
    /\ IsNumber(Interval)
    /\ now - last_reminder_time >= Interval.v * SecondsPerMinute

AllConditionsHold == ~SnoozeInFuture /\ OtherConditionsHold

\* C1: a check returns true (the loop goes on to send) exactly when the
\* scheduler is not paused, not in do-not-disturb, not snoozed, outside the
\* sleep window and a full interval after last_reminder_time; and a reminder
\* is dispatched only by a thread whose check returned true.
C1_ShouldSendIffAllHold ==
    [][\A t \in ThreadIds :
         /\ LoopCheck(t) => (threads'[t].pc = "send" <=> AllConditionsHold)
         /\ reminder_count' # reminder_count /\ threads'[t] # threads[t]
              => threads[t].pc = "send" /\ threads[t].logged = "true"]_vars

C1_Witness ==
    \E t \in ThreadIds :
        /\ threads[t].pc = "sending"
        /\ reminder_count > 0

\* C2: a check made less than one interval after the last start() that took
\* effect does not return true.
C2_NoReminderBeforeFirstInterval ==
    [][\A t \in ThreadIds :
         ( /\ LoopCheck(t)
           /\ started_at # None
           /\ IsNumber(Interval)
           /\ now < started_at + Interval.v * SecondsPerMinute )
         => threads'[t].pc # "send"]_vars

\* a check that nothing but the interval blocked, made in the first interval
C2_Witness ==
    \E t \in ThreadIds :
        /\ threads[t].pc = "sleep"
        /\ threads[t].logged = "false"
        /\ threads[t].wake = now + SleepSeconds
        /\ now = started_at
        /\ last_reminder_time = started_at
        /\ ~is_paused /\ ~config.do_not_disturb /\ snooze_until = None
        /\ ~_is_sleep_time
        /\ IsNumber(Interval)

\* C3: after snooze(m) at T, no check made before T + m minutes returns
\* true, unless snooze is called again; a check made from T + m on returns
\* what the other conditions decide.
C3_SnoozeBlocksUntilItsTime ==
    [][\A t \in ThreadIds : LoopCheck(t) /\ snoozed_until # None =>
         /\ now < snoozed_until => threads'[t].pc # "send"
         /\ now >= snoozed_until
              => (threads'[t].pc = "send" <=> OtherConditionsHold)]_vars

\* C4: after pause() with no duration, is_paused stays true until resume()
\* is called explicitly.
C4_IndefinitePauseStays == pause_mode = "indefinite" => is_paused

\* C5: pause(d) pauses at once, and a pause with a duration that no
\* explicit resume() ended is ended by its timer.
C5_TimedPauseEnds ==
    /\ [][\A d \in 1..MaxPauseMinutes : Pause(d) => is_paused']_vars
    /\ (pause_mode = "timed" /\ is_paused) ~> ~is_paused

\* the timer of a pause(d) has resumed the scheduler
C5_Witness ==
    /\ pause_mode = "timed"
    /\ ~is_paused
    /\ timers = {}
    /\ now >= SecondsPerMinute

Created == {t \in ThreadIds : threads[t].pc # "none"}

\* C6: start() on a running scheduler creates no thread and leaves
\* last_reminder_time, reminder_count, is_paused and snooze_until alone.
C6_StartWhileRunningIsNoOp ==
    [][Start /\ is_running
         => UNCHANGED <<threads, scheduler_thread, is_running,
                        last_reminder_time, reminder_count, is_paused,
                        snooze_until,
                   dispatched_at>>]_vars

\* start() was turned down, later than the start() that took effect
C6_Witness ==
    /\ warned
    /\ is_running
    /\ Cardinality(Created) = 1
    /\ now > started_at
    /\ last_reminder_time = started_at

\* C7: stop() clears is_running and touches no thread; its wait ends at
\* most JoinTimeout after the call, whatever the loop thread is doing; a
\* thread ends only by finding is_running false at its loop condition, and
\* then it does end.
C7_StopIsBoundedAndCooperative ==
    /\ [](stopper.pc = "join" =>
            /\ now <= stopper.since + JoinTimeout
            /\ now = stopper.since + JoinTimeout => ENABLED StopReturn)
    /\ [][/\ StopCall => ~is_running' /\ threads' = threads
          /\ StopReturn => threads' = threads
          /\ \A t \in ThreadIds :
               /\ threads[t].pc # "dead" /\ threads'[t].pc = "dead"
                    => LoopCond(t) /\ ~is_running
               /\ LoopCond(t) /\ ~is_running
                    => threads'[t].pc = "dead"]_vars

\* stop() has returned on its timeout: the thread it joined still sleeps
\* or sends
C7_Witness ==
    /\ ~is_running
    /\ stopper.pc = "idle"
    /\ scheduler_thread # 0
    /\ threads[scheduler_thread].pc \in {"sleep", "sending"}
    /\ now > started_at

\* C8: a tick that throws, in the decision or while sending, leaves the
\* thread alive and is_running as it was, and sleeps SleepSeconds; the
\* thread then evaluates the loop condition and, if still running, checks
\* again.
C8_TickFailureKeepsLoop ==
    [][\A t \in ThreadIds :
         /\ LoopCheck(t) /\ _should_send_reminder = "raised"
              => /\ threads'[t].pc = "sleep"
                 /\ threads'[t].wake = now + SleepSeconds
                 /\ is_running' = is_running
         /\ SendBegin(t) /\ threads'[t].logged = "send_error"
              => /\ threads'[t].pc = "sleep"
                 /\ threads'[t].wake = now + SleepSeconds
                 /\ is_running' = is_running
         /\ threads[t].pc = "sleep" /\ threads'[t] # threads[t]
              => threads'[t].pc = "cond" /\ now >= threads[t].wake
         /\ LoopCond(t) /\ is_running => threads'[t].pc = "check"
         /\ threads[t].pc # "dead" /\ threads'[t].pc = "dead"
              => threads[t].pc = "cond" /\ ~is_running]_vars

\* a check has thrown and the thread sleeps
C8_Witness ==
    \E t \in ThreadIds :
        /\ threads[t].pc = "sleep"
        /\ threads[t].logged = "loop_error"
        /\ is_running

\* C9: every completed _send_reminder call leaves last_reminder_time at the
\* time of the attempt and snooze_until unset.
C9_EveryAttemptUpdatesLastReminderTime ==
    [][\A t \in ThreadIds :
         (SendBegin(t) \/ SendEnd(t)) /\ threads'[t].pc = "sleep"
         => last_reminder_time' = now /\ snooze_until' = None]_vars

\* C10: a broadcast that no channel delivered leaves is_running as it was
\* and the thread in the loop's ordinary sleep, with the attempt recorded.
C10_TotalFailureKeepsLoop ==
    [][\A t \in ThreadIds :
         SendEnd(t) /\ threads'[t].logged = "failed_all"
         => /\ is_running' = is_running
            /\ threads'[t].pc = "sleep"
            /\ threads'[t].wake = now + SleepSeconds
            /\ last_reminder_time' = now]_vars

\* a broadcast failed on every channel and the scheduler still runs
C10_Witness ==
    \E t \in ThreadIds :
        /\ threads[t].logged = "failed_all"
        /\ threads[t].pc = "sleep"
        /\ is_running

\* C11: a check made at or after snooze_until leaves snooze_until unset, so
\* that get_status reports no snooze, whether or not a reminder fires.
C11_PassedSnoozeIsCleared ==
    [][\A t \in ThreadIds :
         LoopCheck(t) /\ snooze_until # None /\ now >= snooze_until
         => snooze_until' = None /\ get_status'.snooze_until = None]_vars

\* C12: with long_break_interval N >= 1, the reminder built with count K
\* (the count after its increment) is a long break exactly when K mod N = 0.
C12_LongBreakEveryNth ==
    [][\A t \in ThreadIds :
         SendBegin(t) /\ config.long_break_interval >= 1 =>
            LET K == reminder_count'
                N == config.long_break_interval
            IN /\ K = reminder_count + 1
               /\ threads'[t].pc = "sending" =>
                     /\ notification'.count = K
                     /\ notification'.title = LongBreakTitle <=> K % N = 0
                     /\ notification'.title = QuickBreakTitle <=> K % N # 0
               /\ threads'[t].pc # "sending" => K % N # 0]_vars

\* the second reminder, with N = 2, is a long break
C12_Witness ==
    /\ config.long_break_interval = 2
    /\ reminder_count = 2
    /\ notification.count = 2
    /\ notification.title = LongBreakTitle

\* C13: an ordinary reminder built while the message pool is empty is
\* handed to the dispatcher with the built-in fallback message.
C13_EmptyPoolUsesFallback ==
    [][\A t \in ThreadIds :
         ( /\ SendBegin(t)
           /\ config.messages = 0
           /\ reminder_count' % config.long_break_interval # 0 )
         => /\ threads'[t].pc = "sending"
            /\ notification'.count = reminder_count'
            /\ notification'.message = FallbackMessage]_vars

\* C14: a window with start > end holds the times of day from start to
\* midnight and from midnight to end; a window with start <= end holds the
\* times from start to end; _is_sleep_time, as get_status reports it, is
\* true exactly inside the window.
C14_SleepWindowTest ==
    LET sh == get_sleep_hours(store)
        inside == IF sh.start > sh.end
                  THEN (sh.start .. SecondsPerDay - 1) \cup (0 .. sh.end)
                  ELSE sh.start .. sh.end
    IN sh.ok => (get_status.is_sleep_time <=> TimeOfDay(now) \in inside)

\* just after midnight, inside a window that wraps, and status was asked
C14_Witness ==
    LET sh == get_sleep_hours(store)
    IN /\ calls > 0
       /\ sh.ok /\ sh.start > sh.end
       /\ TimeOfDay(now) <= sh.end
       /\ get_status.is_sleep_time

PauseArgs == {None} \cup (1..MaxPauseMinutes)
SnoozeArgs == {None} \cup (1..MaxSnoozeMinutes)

\* C15: reminder_count is a natural number; a step changes it only by
\* adding one, in _send_reminder; no control-surface operation changes it.
C15_ReminderCountOnlyGrows ==
    /\ [](reminder_count \in Nat)
    /\ [][/\ \/ reminder_count' = reminder_count
              \/ /\ reminder_count' = reminder_count + 1
                 /\ \E t \in ThreadIds : SendBegin(t)
          /\ ( \/ Start \/ StopCall \/ StopReturn \/ Resume \/ TimerFire
               \/ ToggleDnd \/ ReloadConfig \/ GetStatus
               \/ \E d \in PauseArgs : Pause(d)
               \/ \E m \in SnoozeArgs : Snooze(m) )
             => reminder_count' = reminder_count]_vars

\* a reminder was counted, then the scheduler was stopped and started again
C15_Witness ==
    /\ reminder_count > 0
    /\ is_running
    /\ scheduler_thread = 2
    /\ started_at >= last_reminder_time

\* the persisted do_not_disturb: what a scheduler constructed over the
\* store would start with
PersistedDnd == _deep_merge(DefaultConfig, store).do_not_disturb

\* C16: every toggle_do_not_disturb call leaves the in-memory and the
\* persisted do_not_disturb at the value it returns, and the second of two
\* consecutive calls leaves both at the value the first one found.
C16_ToggleTwiceIsIdentity ==
    [][ToggleDnd =>
         /\ config'.do_not_disturb = ~config.do_not_disturb
         /\ PersistedDnd' = ~config.do_not_disturb
         /\ dnd_before # <<>> =>
               /\ config'.do_not_disturb = dnd_before[1]
               /\ PersistedDnd' = dnd_before[1]]_vars

\* C17: after toggle_do_not_disturb returns v, the do_not_disturb that
\* get_status reports and the polling decision reads is v.
C17_ToggleReturnsNewState ==
    [][ToggleDnd =>
         get_status'.do_not_disturb = ~config.do_not_disturb]_vars

\* C18: while do_not_disturb is true in memory and in the store, only
\* toggle_do_not_disturb or an edit of the store ends that; no check made
\* with do_not_disturb true returns true.
C18_DndStaysUntilToggled ==
    [][/\ config.do_not_disturb /\ PersistedDnd
            => \/ ToggleDnd
               \/ EditStore
               \/ config'.do_not_disturb /\ PersistedDnd'
       /\ \A t \in ThreadIds :
            LoopCheck(t) /\ config.do_not_disturb
            => threads'[t].pc # "send"]_vars

\* do_not_disturb was toggled on and written; a full interval after the
\* start a check was turned down, with nothing else to turn it down
C18_Witness ==
    \E t \in ThreadIds :
        /\ DOMAIN store = Keys
        /\ config.do_not_disturb /\ PersistedDnd
        /\ threads[t].pc = "sleep"
        /\ threads[t].logged = "false"
        /\ last_reminder_time # None
        /\ IsNumber(Interval)
        /\ threads[t].wake - SleepSeconds - last_reminder_time
               >= Interval.v * SecondsPerMinute
        /\ ~is_paused /\ snooze_until = None /\ ~_is_sleep_time

\* C19: get_status returns a record in every state and changes none of
\* is_running, is_paused, reminder_count, last_reminder_time, snooze_until,
\* the in-memory config, the channels.
C19_GetStatusIsPureRead ==
    [][GetStatus =>
         /\ get_status.ok
         /\ UNCHANGED <<is_running, is_paused, reminder_count,
                        last_reminder_time, snooze_until, config,
                        handlers,
                   dispatched_at>>]_vars

\* C20: the map a dispatcher call returns has one entry per enabled
\* channel: false for a channel that raised, and what the channel returned
\* for every other one.
C20_EveryChannelAttempted ==
    dispatched.op # "none" =>
        /\ DOMAIN dispatched.outcome = handlers
        /\ DOMAIN dispatched.results = handlers
        /\ \A name \in handlers :
             /\ dispatched.outcome[name] = "raised"
                  => dispatched.results[name] = FALSE
             /\ dispatched.outcome[name] = "true"
                  => dispatched.results[name] = TRUE
             /\ dispatched.outcome[name] = "false"
                  => dispatched.results[name] = FALSE

\* one channel raised, another delivered, a third returned false
C20_Witness ==
    /\ dispatched.op = "send_notification"
    /\ \E a, b, c \in handlers :
         /\ dispatched.outcome[a] = "raised" /\ ~dispatched.results[a]
         /\ dispatched.outcome[b] = "true" /\ dispatched.results[b]
         /\ dispatched.outcome[c] = "false" /\ ~dispatched.results[c]

\* C21: after the dispatcher's reload_config(cfg), get_enabled_methods is
\* the set of channels enabled in cfg, whatever was enabled before, and
\* every handler object is a new one.
C21_ReloadRebuildsAllChannels ==
    [][\A names \in SUBSET Channels : DispatcherReload(names) =>
         /\ get_enabled_methods' = names
         /\ \A c \in Channels : instances'[c] # 0 <=> c \in names
         /\ \A c, d \in Channels :
              instances'[c] # 0 /\ instances[d] # 0
              => instances'[c] # instances[d]
         /\ \A c, d \in names : c # d => instances'[c] # instances'[d]]_vars

\* a reload to email alone, over a dispatcher that held other handlers
C21_Witness ==
    /\ calls > 0
    /\ get_enabled_methods = {"email"}
    /\ instances["email"] > Cardinality(Channels)

\* C25: what load_config returns is at every moment the merge of the
\* persisted settings over the built-in defaults.
C25_LoadIsMergeOverBuiltins ==
    load_config(store) = _deep_merge(DefaultConfig, store)

\* C26: a dispatch during which reload_config ran ends with a result map
\* and with last_reminder_time updated.
C26_ReloadDuringDispatchIsSafe ==
    [][\A t \in ThreadIds :
         SendEnd(t) /\ iterating[t].reloaded
         => /\ threads'[t].logged \in {"sent", "failed_all"}
            /\ last_reminder_time' = now]_vars

\* C27: pause, resume (also by timer), snooze and toggle_do_not_disturb
\* leave is_running and every loop thread as they are; start and stop
\* leave is_paused as it is.
C27_PauseAndRunningIndependent ==
    [][/\ ( \/ \E d \in PauseArgs : Pause(d)
            \/ Resume \/ TimerFire
            \/ \E m \in SnoozeArgs : Snooze(m)
            \/ ToggleDnd )
          => is_running' = is_running /\ threads' = threads
       /\ (Start \/ StopCall \/ StopReturn)
          => is_paused' = is_paused]_vars

\* the scheduler was paused while running, then stopped: still paused
C27_Witness ==
    /\ is_paused
    /\ pause_mode # "none"
    /\ ~is_running
    /\ stopper.pc = "join"
    /\ threads[stopper.thread].pc # "dead"

\* C28: snooze leaves is_paused as it is; pause and resume leave
\* snooze_until as it is.
C28_SnoozeAndPauseIndependent ==
    [][/\ (\E m \in SnoozeArgs : Snooze(m)) => is_paused' = is_paused
       /\ ( \/ \E d \in PauseArgs : Pause(d)
            \/ Resume \/ TimerFire )
          => snooze_until' = snooze_until]_vars


-----------------------------------------------------------------------------
(* The channel handlers, checked under ChannelSpec *)

Incomplete(name) ==
    IF name = "email" THEN channel_env.email = {}
    ELSE channel_env.telegram = {}

\* C22: a Dispatcher built with email or telegram enabled and an empty
\* credential section is built and lists the channel as enabled, and every
\* call of that channel returns false: it neither raises nor waits for a
\* worker.
C22_MissingCredentialsFailPerSend ==
    \A name \in {"email", "telegram"} :
        /\ name \in config.notifications => name \in get_enabled_methods
        /\ (Incomplete(name) /\ channel_call.channel = name)
             => /\ channel_call.pc = "returned"
                /\ channel_call.returned = "false"

C22_Witness ==
    /\ channel_env.telegram = {}
    /\ channel_env.TELEGRAM_AVAILABLE
    /\ "telegram" \in get_enabled_methods
    /\ channel_call.channel = "telegram"
    /\ channel_call.op = "send_notification"
    /\ channel_call.returned = "false"

\* C23: whenever one of smtp_server, email, password, recipient is missing
\* or empty, EmailNotificationHandler.send_notification returns false and
\* has opened no connection.
C23_EmailFailsFastWithoutConnection ==
    ( /\ channel_call.channel = "email"
      /\ channel_call.op = "send_notification"
      /\ ~(EmailFields \subseteq channel_env.email) )
        => /\ channel_call.returned = "false"
           /\ ~channel_call.connected

C23_Witness ==
    /\ channel_env.email = EmailFields \ {"recipient"}
    /\ channel_call.channel = "email"
    /\ channel_call.op = "send_notification"
    /\ channel_call.returned = "false"
    /\ ~channel_call.connected

\* C24: a Telegram send holds its caller no later than TelegramTimeout after
\* it began, and when it returns it returns a boolean: false when the
\* worker is still running (which is then exactly at the timeout), false
\* when the worker failed, true only when the worker sent the message.
C24_TelegramSendIsBounded ==
    /\ [](channel_call.pc = "join"
            => now <= channel_call.since + TelegramTimeout)
    /\ [][TelegramCallReturn =>
            /\ channel_call'.returned \in {"true", "false"}
            /\ (channel_call'.returned = "true")
                 <=> (channel_call.worker = "sent")
            /\ channel_call.worker = "running"
                 => now = channel_call.since + TelegramTimeout]_vars

C24_Witness ==
    /\ channel_call.channel = "telegram"
    /\ channel_call.pc = "returned"
    /\ channel_call.underlying = "timeout"
    /\ channel_call.returned = "false"
    /\ now = channel_call.since + TelegramTimeout

\* C30: send_notification and test_connection of each of the three
\* channels return a boolean whatever the OS, SMTP or Telegram call under
\* them does; none of them raises.
C30_ChannelsReturnBooleans ==
    channel_call.pc = "returned" /\ channel_call.channel # "none"
        => channel_call.returned \in {"true", "false"}

C30_Witness ==
    /\ channel_call.channel = "desktop"
    /\ channel_call.op = "test_connection"
    /\ channel_call.underlying = "raises"
    /\ channel_call.returned = "false"


-----------------------------------------------------------------------------
(* start_service, checked under ServiceSpec *)

\* C29: start_service starts the scheduler only with the stored first_run
\* flag false, whether it was false from the beginning or setup has just
\* run and completed; and when setup was needed and did not complete, no
\* scheduler is started.
C29_NoStartWhileSetupRequired ==
    /\ [][StartScheduler => first_run = "false"]_vars
    /\ [](app = "exited" => ~is_running)


-----------------------------------------------------------------------------
(* The loop and the control surface together, checked under Spec *)

\* C31: stop() leaves a dispatch in flight alone: the sending thread, the
\* notification and the iteration over the channels are as before, and a
\* thread leaves its send only by the send coming to its end. After stop()
\* a thread starts a tick only through a loop condition found true, so
\* with no start() after the stop() the only dispatches left are those of
\* ticks already past their loop condition.
C31_StopLeavesDispatchAlone ==
    [][/\ StopCall \/ StopReturn
            => threads' = threads /\ outVars' = outVars
       /\ \A t \in ThreadIds :
            /\ threads[t].pc = "sending" /\ threads'[t] # threads[t]
                 => SendEnd(t)
            /\ threads[t].pc # "check" /\ threads'[t].pc = "check"
                 => LoopCond(t) /\ is_running
            /\ threads[t].pc # "send" /\ threads'[t].pc = "send"
                 => threads[t].pc = "check"
            /\ threads[t].pc # "sending" /\ threads'[t].pc = "sending"
                 => threads[t].pc = "send"
            /\ threads[t].pc = "dead" => threads'[t].pc = "dead"]_vars

\* stop() is waiting for a thread whose dispatch is in flight
C31_Witness ==
    /\ ~is_running
    /\ stopper.pc = "join"
    /\ threads[stopper.thread].pc = "sending"
    /\ notification.count = reminder_count


Alive == {t \in ThreadIds : threads[t].pc \notin {"none", "dead"}}

\* C32: at most one loop thread is alive at any time.
C32_AtMostOneLoopThread == Cardinality(Alive) <= 1


\* C33: a reminder goes to the Dispatcher no sooner than
\* reminder_interval_minutes after the one before it.
C33_RemindersAreAnIntervalApart ==
    [][\A t \in ThreadIds :
         ( /\ SendBegin(t)
           /\ threads'[t].pc = "sending"
           /\ dispatched_at # None
           /\ IsNumber(Interval) )
         => now - dispatched_at >= Interval.v * SecondsPerMinute]_vars


\* C34: reminder_count grows only in a step that hands a reminder to the
\* Dispatcher, and the number in each reminder handed over is one more than
\* the number in the one before.
C34_CountMatchesBroadcasts ==
    [][/\ reminder_count' # reminder_count
            => \E t \in ThreadIds :
                   SendBegin(t) /\ threads'[t].pc = "sending"
       /\ \A t \in ThreadIds :
            SendBegin(t) /\ threads'[t].pc = "sending"
            => notification'.count = notification.count + 1]_vars


\* C35: rewriting the persisted settings, with no reload_config and no
\* toggle_do_not_disturb, leaves what _should_send_reminder returns as it
\* was.
C35_DecisionReadsMemoryOnly ==
    [][EditStore => _should_send_reminder' = _should_send_reminder]_vars


\* C36: the channels the Dispatcher holds are at all times the channels
\* the scheduler's in-memory configuration enables.
C36_ChannelsFollowConfig ==
    get_status.enabled_notifications = _initialize_handlers(config)


\* C37: with no settings file, or one that is not valid JSON, load_config
\* returns the built-in defaults.
C37_UnreadableFileGivesBuiltins ==
    store = <<>> => load_config(store) = DefaultConfig


SleepHoursUnreadable == ~get_sleep_hours(store).ok

\* C39: with sleep hours that cannot be read or parsed, _is_sleep_time is
\* false and does not throw: a check is decided by the other conditions
\* alone, and fails only as it would with readable sleep hours.
C39_UnreadableSleepHoursDoNotSuppress ==
    /\ [](SleepHoursUnreadable => ~_is_sleep_time)
    /\ [][\A t \in ThreadIds :
            LoopCheck(t) /\ SleepHoursUnreadable
            => /\ threads'[t].pc = "send"
                    <=> /\ ~is_paused
                        /\ ~config.do_not_disturb
                        /\ ~SnoozeInFuture
                        /\ last_reminder_time # None
                        /\ IsNumber(Interval)
                        /\ now - last_reminder_time
                             >= Interval.v * SecondsPerMinute
               /\ threads'[t].logged = "loop_error"
                    => ~IsNumber(Interval)]_vars

\* a reminder is on its way at an hour of the default sleep window, the
\* stored window being unreadable
C39_Witness ==
    \E t \in ThreadIds :
        /\ SleepHoursUnreadable
        /\ threads[t].pc = "send"
        /\ TimeOfDay(now) >= 23 * 3600


\* the settings a reader of the persisted document finds: its keys, and
\* the built-in defaults for the keys it does not hold
Persisted(st) == _deep_merge(DefaultConfig, st)

\* C40: after an update_setting('do_not_disturb', v) whose write succeeded,
\* load_config gives v under the key and for every other key what it gave
\* before the call, and in the persisted settings no other key has changed.
C40_UpdateChangesOneSetting ==
    [][( /\ ToggleDnd
         /\ store' = update_setting(store, "do_not_disturb",
                                    ~config.do_not_disturb, TRUE) )
       => /\ load_config(store)'.do_not_disturb = ~config.do_not_disturb
          /\ \A k \in Keys \ {"do_not_disturb"} :
               /\ load_config(store)'[k] = load_config(store)[k]
               /\ Persisted(store')[k] = Persisted(store)[k]]_vars

====
